---------------------------- MODULE Spec2Model ----------------------------
(***************************************************************************)
(* Model of src/bt-lock.js, the Web-Bluetooth driver for Kerong locks.     *)
(*                                                                         *)
(* The module state of bt-lock.js (lines 26-36) is the state of the model. *)
(* Every action is one run of the JavaScript event loop: the synchronous   *)
(* prefix of an exported function up to its first await, the continuation  *)
(* of an await, a timer callback, or the notification handler.             *)
(* Bytes are naturals 0..255; a frame is a sequence of bytes, and          *)
(* response[k] of the source is response[k+1] here.                        *)
(***************************************************************************)
EXTENDS Integers, Sequences, FiniteSets, TLC

(***************************************************************************)
(* Bounds of the model                                                     *)
(***************************************************************************)
MaxCalls == 1          \* API calls made in one behaviour of Spec
MaxBatteryCalls == 3   \* getBatteryLevel calls in one behaviour of SpecBattery
MaxTimeoutCalls == 2   \* getBatteryLevel calls in one behaviour of SpecBatteryFair
MaxBuf   == 24         \* bytes the fragment buffer may hold before the final fragment
MaxListings == 2       \* getUsers and getLogs calls in one behaviour of SpecListing
MaxLen == 3            \* bytes of data in a frame built in SpecPacket
MaxLevelCalls == 1     \* getBatteryLevel calls in one behaviour of SpecLevel
MaxSuspended == 1      \* getBatteryLevel calls in one behaviour of SpecSuspended

(***************************************************************************)
(* Protocol constants                                                      *)
(***************************************************************************)
STX == 245             \* 0xF5
ETX == 95              \* 0x5F
CMD_PAIR    == 15      \* 0x0F
CMD_RANDOM  == 32      \* 0x20
CMD_AUTH    == 33      \* 0x21
CMD_BATTERY == 96      \* 0x60
CMD_CREATE  == 104     \* 0x68
CMD_DELETE  == 107     \* 0x6B
CMD_USERS   == 108     \* 0x6C
CMD_EXIT    == 111     \* 0x6F
CMD_LOG     == 114     \* 0x72
ST_OK       == 16      \* 0x10
ST_PARTIAL  == 36      \* 0x24
RETRIES     == 3
DEFAULT_MIN_MV == 3962
DEFAULT_MAX_MV == 6000

\* JavaScript's undefined (an index past the end of an array, an unset let)
undefined == 0 - 1
\* JavaScript's null, the empty pendingBatteryResolve slot; calls are numbered from 1
null == 0

(***************************************************************************)
(* Pure helpers                                                            *)
(***************************************************************************)
RECURSIVE SumSeq(_)
SumSeq(s) == IF s = <<>> THEN 0 ELSE Head(s) + SumSeq(Tail(s))

RECURSIVE BitXor(_, _)
\* b ^ key on non-negative integers
BitXor(a, b) ==
  IF a = 0 /\ b = 0 THEN 0
  ELSE (((a % 2) + (b % 2)) % 2) + 2 * BitXor(a \div 2, b \div 2)

\* createPacket whose checksum leaves the data bytes out
createPacket_HeaderSum(cmd, data) ==
  LET packet == <<STX, cmd, 0, Len(data), ETX>>
  IN  packet \o <<SumSeq(packet) % 256>> \o data

\* createPacket(cmd, data): [STX, cmd, 0x00, data.length, ETX, sum & 0xFF, ...data]
createPacket(cmd, data) ==
  LET packet == <<STX, cmd, 0, Len(data), ETX>>
      sum    == SumSeq(packet) + SumSeq(data)
  IN  packet \o <<sum % 256>> \o data

\* encryptData adding the key instead of XOR-ing it
encryptData_Add(plainData, key) ==
  [k \in 1..Len(plainData) |-> (plainData[k] + key) % 256]

\* encryptData(plainData, key): plainData.map(b => (b ^ key) % 256)
encryptData(plainData, key) ==
  [k \in 1..Len(plainData) |-> BitXor(plainData[k], key) % 256]

\* String(phone).padStart(12, '0'); phone is a sequence of decimal digits
padStart12(phone) ==
  IF Len(phone) >= 12 THEN phone
  ELSE [k \in 1..(12 - Len(phone)) |-> 0] \o phone

\* parsePhoneNumber(phone): six bytes, each parseInt of two digits in base 16
parsePhoneNumber(phone) ==
  LET padded == padStart12(phone)
  IN  [k \in 1..6 |-> 16 * padded[2 * k - 1] + padded[2 * k]]

\* response[k] with JavaScript's 0-based index; undefined past the end
At(response, k) ==
  IF k >= 0 /\ k < Len(response) THEN response[k + 1] ELSE undefined

\* response.slice(a, b)
Slice(response, a, b) ==
  LET e == IF b < Len(response) THEN b ELSE Len(response)
  IN  IF e <= a THEN <<>> ELSE [k \in 1..(e - a) |-> response[a + k]]

\* x << 8 | y as the source evaluates it: undefined converts to 0
ToInt32(x) == IF x = undefined THEN 0 ELSE x

\* JavaScript's NaN, as a percentage that is no number
NaN == 0 - 2

\* calculateBatteryPercentage with the clamp of line 520 left out
calculateBatteryPercentage_Unclamped(mv, cfg) ==
  LET min == IF cfg.BATTERY_MIN_MV = 0 THEN DEFAULT_MIN_MV ELSE cfg.BATTERY_MIN_MV
      max == IF cfg.BATTERY_MAX_MV = 0 THEN DEFAULT_MAX_MV ELSE cfg.BATTERY_MAX_MV
  IN  IF max = min THEN NaN
      ELSE ((mv - min) * 1000) \div (max - min)

\* calculateBatteryPercentage(mv), lines 516-521, in tenths of a percent:
\* perc = ((mv - min) / (max - min)) * 100, clamped to 0..100 and rounded to
\* one decimal.  A configured 0 is falsy and gives the default.  With
\* max = min the quotient is NaN for mv = min (and so is the result), and
\* plus or minus Infinity otherwise, which the clamp turns into 100 or 0.
calculateBatteryPercentage(mv, cfg) ==
  LET min == IF cfg.BATTERY_MIN_MV = 0 THEN DEFAULT_MIN_MV ELSE cfg.BATTERY_MIN_MV
      max == IF cfg.BATTERY_MAX_MV = 0 THEN DEFAULT_MAX_MV ELSE cfg.BATTERY_MAX_MV
      den == IF max > min THEN max - min ELSE min - max
      num == IF max > min THEN (mv - min) * 1000 ELSE (min - mv) * 1000
  IN  IF max = min
      THEN IF mv = min THEN NaN ELSE IF mv > min THEN 1000 ELSE 0
      ELSE IF num <= 0 THEN 0
      ELSE IF num >= 1000 * den THEN 1000
      ELSE (2 * num + den) \div (2 * den)     \* nearest tenth

\* decToBcd leaving the number in binary
decToBcd_Binary(dec) == dec % 256

\* decToBcd(dec): ((Math.floor(dec / 10) << 4) | (dec % 10)) & 0xFF, dec >= 0
decToBcd(dec) == (((dec \div 10) * 16) + (dec % 10)) % 256

\* dateToBcd(date): a date is [year, month (0-11, as getMonth), day, hour, minute]
dateToBcd(date) ==
  << decToBcd(date.year % 100), decToBcd(date.month + 1), decToBcd(date.day),
     decToBcd(date.hour), decToBcd(date.minute) >>

\* bcdToDec(byte), lines 448-452: ((byte >> 4) & 0x0F) * 10 + (byte & 0x0F)
bcdToDec(byte) == ((byte \div 16) % 16) * 10 + (byte % 16)

\* one user record of parseUserData, lines 490-498: the checksum test and
\* the 24 bytes; the other fields are renderings of the same bytes
UserRecord(chunk) ==
  [valid |-> chunk[24] = SumSeq(Slice(chunk, 0, 23)) % 256, raw |-> chunk]

RECURSIVE parseUserDataFrom(_, _)
\* the loop of parseUserData, lines 483-501, from index i on
parseUserDataFrom(dataBuffer, i) ==
  IF i >= Len(dataBuffer) THEN <<>>
  ELSE LET chunk == Slice(dataBuffer, i, i + 24)
       IN  IF Len(chunk) < 24 THEN <<>>
           ELSE <<UserRecord(chunk)>> \o parseUserDataFrom(dataBuffer, i + 24)

\* parseUserData(dataBuffer), lines 479-504
parseUserData(dataBuffer) == parseUserDataFrom(dataBuffer, 0)

RECURSIVE Digits(_)
\* String(n) as a sequence of decimal digits
Digits(n) == IF n < 10 THEN <<n>> ELSE Digits(n \div 10) \o <<n % 10>>

(***************************************************************************)
(* Inputs                                                                  *)
(***************************************************************************)
Keys == {"PAIRING_PASSWORD", "ADMIN_PHONE", "ADMIN_PASSWORD"}

\* CONFIG = {} (line 27): no key is set
CfgEmpty ==
  [keys |-> {}, PAIRING_PASSWORD |-> <<>>, ADMIN_PHONE |-> <<>>,
   ADMIN_PASSWORD |-> <<>>, BATTERY_MIN_MV |-> 0, BATTERY_MAX_MV |-> 0]

\* the README's configuration: '9155', '15814015470', '000000'
CfgReadme ==
  [keys |-> Keys, PAIRING_PASSWORD |-> <<57, 49, 53, 53>>,
   ADMIN_PHONE |-> <<1, 5, 8, 1, 4, 0, 1, 5, 4, 7, 0>>,
   ADMIN_PASSWORD |-> <<48, 48, 48, 48, 48, 48>>,
   BATTERY_MIN_MV |-> 0, BATTERY_MAX_MV |-> 0]

\* the same with PAIRING_PASSWORD: ''
CfgNoPairing == [CfgReadme EXCEPT !.PAIRING_PASSWORD = <<>>]

Configs == {CfgEmpty, CfgReadme, CfgNoPairing}

UserIds == {1000, 1001}
Dates   == {[year |-> 2025, month |-> 11, day |-> 31, hour |-> 23, minute |-> 59]}

ST_ERR  == ST_OK + 1       \* 0x11, a status other than 0x10 and 0x24
CMD_UNKNOWN == CMD_LOG + 1 \* 0x73, a command code the handler has no case for

Commands == {CMD_PAIR, CMD_RANDOM, CMD_AUTH, CMD_BATTERY, CMD_USERS,
             CMD_CREATE, CMD_DELETE, CMD_LOG, CMD_UNKNOWN}
Statuses == {ST_OK, ST_PARTIAL, ST_ERR}

PwA == <<65, 65, 65, 65, 65, 65>>     \* "AAAAAA"
PwB == <<66, 66, 66, 66, 66, 66>>     \* "BBBBBB"

\* a frame as the lock sends it: the header of createPacket with the status byte
DeviceFrame(cmd, status, data) ==
  LET packet == <<STX, cmd, status, Len(data), ETX>>
  IN  packet \o <<(SumSeq(packet) + SumSeq(data)) % 256>> \o data

\* the payload the lock sends with each command in Spec
Payload(cmd) ==
  IF cmd = CMD_RANDOM THEN <<122>>
  ELSE IF cmd = CMD_BATTERY THEN <<0, 0, 15, 160>>
  ELSE IF cmd = CMD_CREATE THEN PwA
  ELSE <<>>

\* the notifications of Spec: every command with every status
NotifyFrames ==
  { DeviceFrame(cmd, st, Payload(cmd)) : <<cmd, st>> \in Commands \X Statuses }

\* the notifications of SpecBattery: battery replies of 4000 mV
BatteryFrames ==
  { DeviceFrame(CMD_BATTERY, st, Payload(CMD_BATTERY)) : st \in Statuses }

\* a user record as the lock lists it: type, user id, password, validity
\* from and to, and the low byte of their sum
ListedUser(userId, password) ==
  LET date == CHOOSE d \in Dates : TRUE
      body == <<2>> \o parsePhoneNumber(Digits(userId)) \o password
                \o dateToBcd(date) \o dateToBcd(date)
  IN  body \o <<SumSeq(body) % 256>>

RecA == ListedUser(1000, PwA)
RecB == ListedUser(1001, PwB)

\* the payloads of 0x6C fragments: a whole record, and a record in two halves
UserPayloads == {RecA, Slice(RecB, 0, 12), Slice(RecB, 12, 24)}

\* the 0x6C notifications of SpecListing
UserFrames ==
  { DeviceFrame(CMD_USERS, st, data) :
      <<st, data>> \in {ST_PARTIAL, ST_OK} \X UserPayloads }
  \cup { DeviceFrame(CMD_USERS, ST_ERR, RecA) }

\* a partial fragment carrying the first half of a record
HalfFrame == DeviceFrame(CMD_USERS, ST_PARTIAL, Slice(RecB, 0, 12))

\* the notifications of SpecSuspended: the battery reply, and notifications
\* for other commands that change the session, write, or throw
SuspendedFrames ==
  { DeviceFrame(cmd, ST_OK, Payload(cmd)) :
      cmd \in {CMD_BATTERY, CMD_PAIR, CMD_RANDOM, CMD_AUTH, CMD_CREATE} }
  \cup { DeviceFrame(CMD_AUTH, ST_ERR, <<>>), HalfFrame }

\* frames that are too short for their command or carry an unknown one:
\* a 0x60 reply without voltage bytes, a 0x20 reply without payload, an
\* unknown command, an empty frame, a 0x21 frame cut after the command byte
MalformedFrames ==
  { DeviceFrame(CMD_BATTERY, ST_OK, <<>>), DeviceFrame(CMD_RANDOM, ST_OK, <<>>),
    DeviceFrame(CMD_UNKNOWN, ST_OK, <<>>), <<>>, <<STX, CMD_AUTH>> }

\* the notifications of SpecHandshake: the replies to the pairing frame, to
\* the random-code request (random codes 0x7A and 0x39) and to the
\* authentication frame
HandshakeFrames ==
  { DeviceFrame(CMD_PAIR, ST_OK, <<>>),
    DeviceFrame(CMD_RANDOM, ST_OK, <<122>>),
    DeviceFrame(CMD_RANDOM, ST_OK, <<57>>),
    DeviceFrame(CMD_RANDOM, ST_ERR, <<122>>),
    DeviceFrame(CMD_AUTH, ST_OK, <<>>),
    DeviceFrame(CMD_AUTH, ST_ERR, <<>>) }

\* battery configurations: none (the defaults), 4000..5000 mV, minimum and
\* maximum both 5000 mV, and a minimum of 6500 mV with the default maximum
CfgRange == [CfgEmpty EXCEPT !.keys = {"BATTERY_MIN_MV", "BATTERY_MAX_MV"},
                             !.BATTERY_MIN_MV = 4000, !.BATTERY_MAX_MV = 5000]
CfgFlat  == [CfgRange EXCEPT !.BATTERY_MIN_MV = 5000]
CfgMinOnly == [CfgEmpty EXCEPT !.keys = {"BATTERY_MIN_MV"},
                               !.BATTERY_MIN_MV = 6500]
BatteryConfigs == {CfgEmpty, CfgRange, CfgFlat, CfgMinOnly}

\* the voltages the lock reports in SpecLevel, in mV
Voltages == {0, 3962, 4000, 4500, 5000, 6000, 6500, 65535}

\* a battery reply: the voltage is in bytes 8 and 9 of the frame
LevelFrame(status, mv) ==
  DeviceFrame(CMD_BATTERY, status, <<0, 0, mv \div 256, mv % 256>>)

\* the notifications of SpecLevel
LevelFrames ==
  { LevelFrame(ST_OK, mv) : mv \in Voltages } \cup { LevelFrame(ST_ERR, 4500) }

RECURSIVE SeqsUpTo(_, _)
\* the sequences over S of length at most n
SeqsUpTo(S, n) ==
  IF n = 0 THEN {<<>>}
  ELSE LET shorter == SeqsUpTo(S, n - 1)
       IN  shorter \cup { Append(s, x) : <<s, x>> \in shorter \X S }

\* the arguments createPacket is applied to in SpecPacket: every command
\* byte of the protocol and the ends of the byte range, with data of up to
\* MaxLen bytes
PacketCmds == Commands \cup {CMD_EXIT, 0, 255}
PacketData == SeqsUpTo({0, 1, 127, 255}, MaxLen)

\* the keys encryptData is applied with in SpecCipher: the ends of the byte
\* range, single bits, and the random code 0x7A of the handshake
CipherKeys == {0, 1, 90, 122, 128, 255}

\* the dates dateToBcd is applied to in SpecBcd, as <<getFullYear(),
\* getMonth(), getDate(), getHours(), getMinutes()>>
BcdDates == { <<2025, 11, 31, 23, 59>>, <<2000, 0, 1, 0, 0>>,
              <<1999, 8, 9, 10, 30>>, <<2109, 9, 23, 7, 5>> }

(***************************************************************************)
(* State                                                                   *)
(***************************************************************************)
VARIABLES
  CONFIG,                    \* line 27
  bluetoothDevice,           \* line 28: "undefined", "device" or "null"
  writeCharacteristic,       \* line 29: "undefined", "characteristic" or "null"
  gattConnected,             \* bluetoothDevice.gatt.connected
  randomCode,                \* line 31
  userDataBuffer,            \* line 32
  isAuthenticated,           \* line 33
  pendingBatteryResolve,     \* line 34: null, or the call whose closure it holds
  pendingCreateUserPassword, \* line 35: the Map, as a set of [userId, call]
  latestPasswords,           \* line 36: the set of [userId, password]
  calls,                     \* the API calls made so far, in call order
  out,                       \* frames handed to writeValue by the last step
  thrown,                    \* exception that escaped the last handler run
  lastAuthOk,                \* history: a 0x21 notification arrived since the
                             \*   last completed systemExit, and the last such
                             \*   one had status 0x10
  pwSeen,                    \* history: passwords of the 0x68 success
                             \*   notifications handled since an authenticated
                             \*   createUser call was made
  users,                     \* line 146: the last list parseUserData returned
  received,                  \* history: payload bytes of the 0x6C fragments
                             \*   handled since the last getUsers call or the
                             \*   last final fragment
  probe                      \* a helper function's arguments and its result

vars == << CONFIG, bluetoothDevice, writeCharacteristic, gattConnected,
           randomCode, userDataBuffer, isAuthenticated, pendingBatteryResolve,
           pendingCreateUserPassword, latestPasswords, calls, out, thrown,
           lastAuthOk, pwSeen, users, received, probe >>

\* the Session and the pending-request tables of the spec
session == << isAuthenticated, randomCode, userDataBuffer,
              pendingBatteryResolve, pendingCreateUserPassword,
              latestPasswords >>

transport == << bluetoothDevice, writeCharacteristic, gattConnected >>
history   == << lastAuthOk, pwSeen >>
listing   == << users, received >>

\* no helper function has been applied
NoProbe == [fn |-> "", cmd |-> 0, data |-> <<>>, result |-> <<>>]

(***************************************************************************)
(* Promises and calls                                                      *)
(***************************************************************************)
NoValue == [kind |-> "none", error |-> "", voltage |-> 0, percentage |-> 0,
            password |-> <<>>]
Void          == [NoValue EXCEPT !.kind = "void"]
Err(e)        == [NoValue EXCEPT !.kind = "error", !.error = e]
Password(pw)  == [NoValue EXCEPT !.kind = "password", !.password = pw]
BatteryResult(mv, cfg) ==
  [NoValue EXCEPT !.kind = "battery", !.voltage = mv,
                  !.percentage = calculateBatteryPercentage(mv, cfg)]

\* a call of an exported function and the promise it returned
NewCall(op, userId, packet) ==
  [op |-> op, userId |-> userId, packet |-> packet,
   pc |-> "start",        \* "write", "backoff", "delay" or "done"
   i |-> 0,               \* loop index of writeWithRetry, 0 outside it
   werr |-> "",           \* error writeWithRetry threw
   outcome |-> "pending", \* state of the promise
   value |-> NoValue,
   timer |-> "none",      \* the 5 s timer: "armed", "fired" or "cleared"
   ripe |-> FALSE,        \* the armed 5 s timer may have reached its deadline
   nRes |-> 0,            \* history: times a notification called the resolver
   auth |-> isAuthenticated,   \* history: isAuthenticated at the call
   seen |-> Len(pwSeen)]       \* history: Len(pwSeen) at the call

\* resolve(v) or reject(e) of a promise: a settled promise stays as it is
Settle(cl, outcome, value) ==
  IF cl.outcome = "pending"
  THEN [cl EXCEPT !.outcome = outcome, !.value = value]
  ELSE cl

Resolve(cl, value) == Settle(cl, "resolved", value)
Reject(cl, e) == Settle(cl, "rejected", Err(e))

\* calls with call c replaced
Put(c, cl) == [calls EXCEPT ![c] = cl]

(***************************************************************************)
(* Timers (setTimeout, lines 244, 285 and 388).  The 100 ms backoff and    *)
(* the 500 ms wait are short against the 5 s deadline: while one of them   *)
(* is pending, less than 5 s can have passed since a battery timer that    *)
(* was armed with it or after the last moment no short timer was pending.  *)
(* A battery timer is ripe once the calls were in a state with no short    *)
(* timer pending, where any time may pass.  Timers of the same delay fire  *)
(* in the order they were armed.                                           *)
(***************************************************************************)
Quiet(cs) == \A c \in 1..Len(cs) : cs[c].pc \notin {"backoff", "delay"}

Ripen(cs) ==
  [c \in 1..Len(cs) |->
     [cs[c] EXCEPT !.ripe = (cs[c].timer = "armed") /\ (@ \/ Quiet(cs))]]


(***************************************************************************)
(* writeWithRetry, lines 378-391                                           *)
(***************************************************************************)
\* what the caller does once `await writeWithRetry(...)` returns
AfterWrite(cl) ==
  CASE cl.op \in {"pairAndAuthenticate", "deleteAllUsers", "getUsers", "getLogs"} ->
         Resolve([cl EXCEPT !.pc = "done", !.i = 0], Void)
    [] cl.op = "getBatteryLevel" -> [cl EXCEPT !.pc = "done", !.i = 0]
    [] cl.op = "systemExit"      -> [cl EXCEPT !.pc = "delay", !.i = 0]

\* writeWithRetry throws e (line 387): every caller fails with e
WriteThrew(cl, e) == Reject([cl EXCEPT !.pc = "done", !.i = 0, !.werr = e], e)

\* getUsers and getLogs await writeValue itself (lines 219 and 227): its
\* error is the call's error
Direct(cl) == cl.op \in {"getUsers", "getLogs"}

\* the catch block giving up one attempt early, as if retries were 2
Caught_GivesUpEarly(cl, e) ==
  IF Direct(cl) \/ cl.i = RETRIES - 2
  THEN WriteThrew(cl, e)
  ELSE [cl EXCEPT !.pc = "backoff"]

\* the catch block, lines 385-389
Caught(cl, e) ==
  IF Direct(cl) \/ cl.i = RETRIES - 1
  THEN WriteThrew(cl, e)
  ELSE [cl EXCEPT !.pc = "backoff"]

\* one pass of the loop up to its await, lines 380-383: on a characteristic
\* that is unset or null, writeValue is a TypeError inside the try
Attempt(cl) ==
  IF writeCharacteristic = "characteristic"
  THEN [cl EXCEPT !.pc = "write"]
  ELSE Caught(cl, "TypeError")

\* the frames that pass hands to the transport
Issued(cl) ==
  IF writeCharacteristic = "characteristic" THEN <<cl.packet>> ELSE <<>>

\* the catch of getBatteryLevel, line 257: a failed write empties the slot
SlotAfter(cl, slot) ==
  IF cl.op = "getBatteryLevel" /\ cl.werr # "" THEN null ELSE slot

(***************************************************************************)
(* Exported functions: the synchronous part of each call                   *)
(***************************************************************************)
\* connectToDevice, lines 44-60; the transport's own steps are one step here,
\* and the function is called only while the link is down
connectToDevice ==
  /\ ~gattConnected
  /\ bluetoothDevice' = "device"
  /\ writeCharacteristic' = "characteristic"
  /\ gattConnected' = TRUE
  /\ out' = <<>>
  /\ thrown' = ""
  /\ UNCHANGED <<CONFIG, listing, probe, session, calls, history>>

\* setConfig, lines 344-351
setConfig(userConfig) ==
  /\ CONFIG' = userConfig
  /\ out' = <<>>
  /\ thrown' = ""
  /\ UNCHANGED <<transport, listing, probe, session, calls, history>>

\* pairAndAuthenticate, lines 66-77
pairAndAuthenticate ==
  /\ LET pairingData == CONFIG.PAIRING_PASSWORD
         cl == NewCall("pairAndAuthenticate", 0,
                       createPacket(CMD_PAIR, pairingData))
     IN  IF "PAIRING_PASSWORD" \notin CONFIG.keys \/ pairingData = <<>>
         THEN /\ calls' = Ripen(Append(calls, Reject([cl EXCEPT !.pc = "done", !.packet = <<>>],
                                               "ConfigError")))
              /\ out' = <<>>
         ELSE /\ calls' = Ripen(Append(calls, Attempt(cl)))
              /\ out' = Issued(cl)
  /\ thrown' = ""
  /\ UNCHANGED <<CONFIG, listing, probe, transport, session, history>>

\* getBatteryLevel, lines 234-261
getBatteryLevel ==
  /\ LET c  == Len(calls) + 1
         cl == NewCall("getBatteryLevel", 0, createPacket(CMD_BATTERY, <<>>))
     IN  IF pendingBatteryResolve # null
         THEN /\ calls' = Ripen(Append(calls, Reject([cl EXCEPT !.pc = "done", !.packet = <<>>],
                                               "Busy")))
              /\ out' = <<>>
              /\ UNCHANGED pendingBatteryResolve
         ELSE LET n == Attempt([cl EXCEPT !.timer = "armed"])
              IN  /\ calls' = Ripen(Append(calls, n))
                  /\ out' = Issued(cl)
                  /\ pendingBatteryResolve' = SlotAfter(n, c)
  /\ thrown' = ""
  /\ UNCHANGED <<CONFIG, listing, probe, transport, isAuthenticated, randomCode, userDataBuffer,
                 pendingCreateUserPassword, latestPasswords, history>>

\* deleteAllUsers with the test of line 267 left out
deleteAllUsers_Unguarded ==
  /\ LET cl == NewCall("deleteAllUsers", 0, createPacket(CMD_DELETE, <<>>))
     IN  /\ calls' = Ripen(Append(calls, Attempt(cl)))
         /\ out' = Issued(cl)
  /\ thrown' = ""
  /\ UNCHANGED <<CONFIG, listing, probe, transport, session, history>>

\* deleteAllUsers, lines 266-272
deleteAllUsers ==
  /\ LET cl == NewCall("deleteAllUsers", 0, createPacket(CMD_DELETE, <<>>))
     IN  IF ~isAuthenticated
         THEN /\ calls' = Ripen(Append(calls, Reject([cl EXCEPT !.pc = "done", !.packet = <<>>],
                                               "NotAuthenticated")))
              /\ out' = <<>>
         ELSE /\ calls' = Ripen(Append(calls, Attempt(cl)))
              /\ out' = Issued(cl)
  /\ thrown' = ""
  /\ UNCHANGED <<CONFIG, listing, probe, transport, session, history>>

\* systemExit, lines 279-283: up to the await of writeWithRetry
systemExit ==
  /\ LET cl == NewCall("systemExit", 0, createPacket(CMD_EXIT, <<>>))
     IN  /\ calls' = Ripen(Append(calls, Attempt(cl)))
         /\ out' = Issued(cl)
  /\ thrown' = ""
  /\ UNCHANGED <<CONFIG, listing, probe, transport, session, history>>

\* getUsers, lines 216-220: one writeValue, awaited, outside writeWithRetry
getUsers ==
  /\ LET cl == NewCall("getUsers", 0, createPacket(CMD_USERS, <<>>))
     IN  /\ calls' = Ripen(Append(calls, Attempt(cl)))
         /\ out' = Issued(cl)
  /\ received' = <<>>
  /\ thrown' = ""
  /\ UNCHANGED <<CONFIG, probe, transport, session, history, users>>

\* getLogs, lines 224-228: one writeValue, awaited, outside writeWithRetry
getLogs ==
  /\ LET cl == NewCall("getLogs", 0, createPacket(CMD_LOG, <<>>))
     IN  /\ calls' = Ripen(Append(calls, Attempt(cl)))
         /\ out' = Issued(cl)
  /\ thrown' = ""
  /\ UNCHANGED <<CONFIG, listing, probe, transport, session, history>>

\* createUser, lines 309-336.  Line 327 reads pendingCreateUserPasswords, a
\* name declared nowhere (line 35 declares pendingCreateUserPassword): the
\* read is a ReferenceError, so an authenticated call fails there, before
\* the promise of line 329 exists and before the write of line 333.
createUser(userId, startDate, endDate, once) ==
  /\ LET type     == IF once THEN 3 ELSE 2
         userData == <<type>> \o parsePhoneNumber(Digits(userId))
                       \o dateToBcd(startDate) \o dateToBcd(endDate)
         cl == [NewCall("createUser", userId, <<>>) EXCEPT !.pc = "done"]
     IN  IF ~isAuthenticated
         THEN calls' = Ripen(Append(calls, Reject(cl, "NotAuthenticated")))
         ELSE /\ Len(userData) = 17
              /\ calls' = Ripen(Append(calls, Reject(cl, "ReferenceError")))
  /\ out' = <<>>
  /\ thrown' = ""
  /\ UNCHANGED <<CONFIG, listing, probe, transport, session, history>>

(***************************************************************************)
(* Continuations and timers                                                *)
(***************************************************************************)
\* the await of writeValue (line 383) settles: ok, or the transport's error
WriteDone(c, ok) ==
  /\ c \in 1..Len(calls)
  /\ calls[c].pc = "write"
  /\ LET n == IF ok THEN AfterWrite(calls[c]) ELSE Caught(calls[c], "NetworkError")
     IN  /\ calls' = Ripen(Put(c, n))
         /\ pendingBatteryResolve' = SlotAfter(n, pendingBatteryResolve)
  /\ out' = <<>>
  /\ thrown' = ""
  /\ UNCHANGED <<CONFIG, listing, probe, transport, isAuthenticated, randomCode, userDataBuffer,
                 pendingCreateUserPassword, latestPasswords, history>>

\* the 100 ms backoff (line 388) ends: i++ and the next pass of the loop
BackoffExpire(c) ==
  /\ c \in 1..Len(calls)
  /\ calls[c].pc = "backoff"
  /\ LET cl == [calls[c] EXCEPT !.i = @ + 1]
         n  == Attempt(cl)
     IN  /\ calls' = Ripen(Put(c, n))
         /\ out' = Issued(cl)
         /\ pendingBatteryResolve' = SlotAfter(n, pendingBatteryResolve)
  /\ thrown' = ""
  /\ UNCHANGED <<CONFIG, listing, probe, transport, isAuthenticated, randomCode, userDataBuffer,
                 pendingCreateUserPassword, latestPasswords, history>>

\* TimerFire with line 245 left out: the timeout rejects but keeps the slot
TimerFire_KeepsSlot(c) ==
  /\ c \in 1..Len(calls)
  /\ calls[c].timer = "armed"
  /\ calls[c].ripe
  /\ \A b \in 1..(c - 1) : calls[b].timer # "armed"
  /\ calls' = Ripen(Put(c, Reject([calls[c] EXCEPT !.timer = "fired"], "Timeout")))
  /\ out' = <<>>
  /\ thrown' = ""
  /\ UNCHANGED <<CONFIG, listing, probe, transport, session, history>>

\* the 5 s timer of getBatteryLevel fires, lines 244-247
TimerFire(c) ==
  /\ c \in 1..Len(calls)
  /\ calls[c].timer = "armed"
  /\ calls[c].ripe
  /\ \A b \in 1..(c - 1) : calls[b].timer # "armed"
  /\ pendingBatteryResolve' = null
  /\ calls' = Ripen(Put(c, Reject([calls[c] EXCEPT !.timer = "fired"], "Timeout")))
  /\ out' = <<>>
  /\ thrown' = ""
  /\ UNCHANGED <<CONFIG, listing, probe, transport, isAuthenticated, randomCode, userDataBuffer,
                 pendingCreateUserPassword, latestPasswords, history>>

\* systemExit after its 500 ms wait, lines 285-297
DelayExpire(c) ==
  /\ c \in 1..Len(calls)
  /\ calls[c].pc = "delay"
  /\ gattConnected' = FALSE
  /\ bluetoothDevice' = "null"
  /\ writeCharacteristic' = "null"
  /\ isAuthenticated' = FALSE
  /\ calls' = Ripen(Put(c, Resolve([calls[c] EXCEPT !.pc = "done"], Void)))
  /\ lastAuthOk' = FALSE
  /\ out' = <<>>
  /\ thrown' = ""
  /\ UNCHANGED <<CONFIG, listing, probe, randomCode, userDataBuffer, pendingBatteryResolve,
                 pendingCreateUserPassword, latestPasswords, pwSeen>>


(***************************************************************************)
(* handleNotifications, lines 81-193, one operator per case of the switch  *)
(***************************************************************************)
\* the parts of the state no case of the handler assigns
HandlerKeeps ==
  UNCHANGED <<CONFIG, probe, transport, pendingCreateUserPassword, latestPasswords>>

\* PairingResponse with the status test of line 93 left out
PairingResponse_AnyStatus(response) ==
  /\ IF writeCharacteristic = "characteristic"
     THEN out' = <<createPacket(CMD_RANDOM, <<>>)>> /\ thrown' = ""
     ELSE out' = <<>> /\ thrown' = "TypeError"
  /\ UNCHANGED <<listing, session, calls, history>>

\* case 0x0F, lines 92-100: an unawaited writeValue of the random-code request
PairingResponse(response) ==
  /\ IF At(response, 2) = ST_OK
     THEN IF writeCharacteristic = "characteristic"
          THEN out' = <<createPacket(CMD_RANDOM, <<>>)>> /\ thrown' = ""
          ELSE out' = <<>> /\ thrown' = "TypeError"
     ELSE out' = <<>> /\ thrown' = ""
  /\ UNCHANGED <<listing, session, calls, history>>

\* authenticateAdmin, lines 195-213, with the random code just stored
authenticateAdmin(key) ==
  IF "ADMIN_PASSWORD" \notin CONFIG.keys
  THEN out' = <<>> /\ thrown' = "TypeError"      \* Array.from(undefined)
  ELSE LET adminData == <<1>> \o parsePhoneNumber(CONFIG.ADMIN_PHONE)
                              \o CONFIG.ADMIN_PASSWORD
           encryptedData == encryptData(adminData, key)
           authPacket == createPacket(CMD_AUTH, encryptedData)
       IN  IF writeCharacteristic = "characteristic"
           THEN out' = <<authPacket>> /\ thrown' = ""
           ELSE out' = <<>> /\ thrown' = "TypeError"

\* RandomCodeResponse that encrypts with the random code it had before the
\* notification (0 when it had none)
RandomCodeResponse_StaleCode(response) ==
  /\ IF At(response, 2) = ST_OK
     THEN /\ randomCode' = At(response, Len(response) - 1)
          /\ authenticateAdmin(IF randomCode = undefined THEN 0 ELSE randomCode)
     ELSE /\ out' = <<>> /\ thrown' = ""
          /\ UNCHANGED randomCode
  /\ UNCHANGED <<listing, isAuthenticated, userDataBuffer,
                 pendingBatteryResolve, calls, history>>

\* case 0x20, lines 102-109
RandomCodeResponse(response) ==
  /\ IF At(response, 2) = ST_OK
     THEN /\ randomCode' = At(response, Len(response) - 1)
          /\ authenticateAdmin(randomCode')
     ELSE /\ out' = <<>> /\ thrown' = ""
          /\ UNCHANGED randomCode
  /\ UNCHANGED <<listing, isAuthenticated, userDataBuffer, pendingBatteryResolve,
                 calls, history>>

\* AuthenticationResponse that waits for the pending battery request: while
\* the slot is taken the notification changes nothing
AuthenticationResponse_WhenIdle(response) ==
  /\ isAuthenticated' =
       IF pendingBatteryResolve = null THEN At(response, 2) = ST_OK
       ELSE isAuthenticated
  /\ lastAuthOk' = (At(response, 2) = ST_OK)
  /\ thrown' = IF At(response, 2) = undefined THEN "TypeError" ELSE ""
  /\ out' = <<>>
  /\ UNCHANGED <<listing, randomCode, userDataBuffer, pendingBatteryResolve,
                 calls, pwSeen>>

\* AuthenticationResponse that only ever sets the flag: a failing 0x21
\* does not take the authentication back
AuthenticationResponse_Sticky(response) ==
  /\ isAuthenticated' = (isAuthenticated \/ At(response, 2) = ST_OK)
  /\ lastAuthOk' = (At(response, 2) = ST_OK)
  /\ thrown' = IF At(response, 2) = undefined THEN "TypeError" ELSE ""
  /\ out' = <<>>
  /\ UNCHANGED <<listing, randomCode, userDataBuffer, pendingBatteryResolve, calls,
                 pwSeen>>

\* case 0x21, lines 111-115; the debug line calls response[2].toString
AuthenticationResponse(response) ==
  /\ isAuthenticated' = (At(response, 2) = ST_OK)
  /\ lastAuthOk' = (At(response, 2) = ST_OK)
  /\ thrown' = IF At(response, 2) = undefined THEN "TypeError" ELSE ""
  /\ out' = <<>>
  /\ UNCHANGED <<listing, randomCode, userDataBuffer, pendingBatteryResolve, calls,
                 pwSeen>>

\* BatteryResponse with line 127 left out: the slot keeps the resolver
BatteryResponse_KeepsSlot(response) ==
  /\ IF At(response, 2) = ST_OK /\ pendingBatteryResolve # null
     THEN LET voltage == ToInt32(At(response, 8)) * 256 + ToInt32(At(response, 9))
              c  == pendingBatteryResolve
              cl == [calls[c] EXCEPT
                       !.timer = IF @ = "armed" THEN "cleared" ELSE @,
                       !.nRes = @ + 1]
          IN  /\ calls' = Ripen(Put(c, Resolve(cl, BatteryResult(voltage, CONFIG))))
              /\ UNCHANGED pendingBatteryResolve
     ELSE UNCHANGED <<calls, pendingBatteryResolve>>
  /\ out' = <<>>
  /\ thrown' = ""
  /\ UNCHANGED <<listing, isAuthenticated, randomCode, userDataBuffer, history>>

\* case 0x60, lines 117-130; the resolver of line 249 clears its timer
BatteryResponse(response) ==
  /\ IF At(response, 2) = ST_OK /\ pendingBatteryResolve # null
     THEN LET voltage == ToInt32(At(response, 8)) * 256 + ToInt32(At(response, 9))
              c  == pendingBatteryResolve
              cl == [calls[c] EXCEPT
                       !.timer = IF @ = "armed" THEN "cleared" ELSE @,
                       !.nRes = @ + 1]
          IN  /\ calls' = Ripen(Put(c, Resolve(cl, BatteryResult(voltage, CONFIG))))
              /\ pendingBatteryResolve' = null
     ELSE UNCHANGED <<calls, pendingBatteryResolve>>
  /\ out' = <<>>
  /\ thrown' = ""
  /\ UNCHANGED <<listing, isAuthenticated, randomCode, userDataBuffer, history>>

\* UserInformationResponse with line 153 left out: the final fragment is
\* parsed and the buffer keeps its bytes
UserInformationResponse_KeepsBuffer(response) ==
  LET status     == At(response, 2)
      dataLength == At(response, 3)
      payload    == IF dataLength = undefined THEN <<>>
                    ELSE Slice(response, 6, 6 + dataLength)
  IN  /\ status = ST_PARTIAL => Len(userDataBuffer) + Len(payload) <= MaxBuf
      /\ userDataBuffer' =
           IF status \in {ST_PARTIAL, ST_OK} THEN userDataBuffer \o payload
           ELSE userDataBuffer
      /\ users' =
           IF status = ST_OK THEN parseUserData(userDataBuffer \o payload)
           ELSE users
      /\ received' =
           IF status = ST_PARTIAL THEN received \o payload
           ELSE IF status = ST_OK THEN <<>>
           ELSE received
      /\ out' = <<>>
      /\ thrown' = ""
      /\ UNCHANGED <<isAuthenticated, randomCode, pendingBatteryResolve, calls,
                     history>>

\* case 0x6C, lines 132-154; a partial fragment is delivered only while the
\* buffer has room for it
UserInformationResponse(response) ==
  LET status     == At(response, 2)
      dataLength == At(response, 3)
      payload    == IF dataLength = undefined THEN <<>>
                    ELSE Slice(response, 6, 6 + dataLength)
  IN  /\ status = ST_PARTIAL => Len(userDataBuffer) + Len(payload) <= MaxBuf
      /\ userDataBuffer' =
           IF status = ST_PARTIAL THEN userDataBuffer \o payload
           ELSE IF status = ST_OK THEN <<>>
           ELSE userDataBuffer
      /\ users' =
           IF status = ST_OK THEN parseUserData(userDataBuffer \o payload)
           ELSE users
      /\ received' =
           IF status = ST_PARTIAL THEN received \o payload
           ELSE IF status = ST_OK THEN <<>>
           ELSE received
      /\ out' = <<>>
      /\ thrown' = ""
      /\ UNCHANGED <<isAuthenticated, randomCode, pendingBatteryResolve, calls,
                     history>>

\* history: the password is noted while an authenticated createUser call exists
NotePassword(password) ==
  IF /\ Len(pwSeen) < Len(calls)
     /\ \E c \in 1..Len(calls) : calls[c].op = "createUser" /\ calls[c].auth
  THEN Append(pwSeen, password)
  ELSE pwSeen

\* case 0x68, lines 156-175: line 161 reads pendingCreateUserPasswords, the
\* undeclared name, so a success status ends in a ReferenceError
PasswordResponse(response) ==
  /\ IF At(response, 2) = ST_OK
     THEN LET password == Slice(response, 6, 12)
          IN  /\ thrown' = "ReferenceError"
              /\ pwSeen' = NotePassword(password)
     ELSE /\ thrown' = ""
          /\ UNCHANGED pwSeen
  /\ out' = <<>>
  /\ UNCHANGED <<listing, session, calls, lastAuthOk>>

\* DeleteResponse taking a failed deletion for the end of the session
DeleteResponse_Deauthenticates(response) ==
  /\ thrown' = IF At(response, 2) = undefined THEN "TypeError" ELSE ""
  /\ out' = <<>>
  /\ isAuthenticated' = (isAuthenticated /\ At(response, 2) = ST_OK)
  /\ UNCHANGED <<listing, randomCode, userDataBuffer, pendingBatteryResolve,
                 pendingCreateUserPassword, latestPasswords, calls, history>>

\* case 0x6B, lines 177-183; the warning calls status.toString
DeleteResponse(response) ==
  /\ thrown' = IF At(response, 2) = undefined THEN "TypeError" ELSE ""
  /\ out' = <<>>
  /\ UNCHANGED <<listing, session, calls, history>>

\* case 0x72, lines 186-191, and a command without a case
NoCase(response) ==
  /\ out' = <<>>
  /\ thrown' = ""
  /\ UNCHANGED <<listing, session, calls, history>>

handleNotifications(response) ==
  LET cmd == At(response, 1)
  IN  /\ gattConnected
      /\ HandlerKeeps
      /\ CASE cmd = CMD_PAIR    -> PairingResponse(response)
           [] cmd = CMD_RANDOM  -> RandomCodeResponse(response)
           [] cmd = CMD_AUTH    -> AuthenticationResponse(response)
           [] cmd = CMD_BATTERY -> BatteryResponse(response)
           [] cmd = CMD_USERS   -> UserInformationResponse(response)
           [] cmd = CMD_CREATE  -> PasswordResponse(response)
           [] cmd = CMD_DELETE  -> DeleteResponse(response)
           [] OTHER             -> NoCase(response)

(***************************************************************************)
(* Specification                                                           *)
(***************************************************************************)
\* the module state as bt-lock.js declares it, lines 26-36
InitState ==
  /\ CONFIG = CfgEmpty
  /\ bluetoothDevice = "undefined"
  /\ writeCharacteristic = "undefined"
  /\ gattConnected = FALSE
  /\ randomCode = undefined
  /\ userDataBuffer = <<>>
  /\ isAuthenticated = FALSE
  /\ pendingBatteryResolve = null
  /\ pendingCreateUserPassword = {}
  /\ latestPasswords = {}
  /\ calls = <<>>
  /\ out = <<>>
  /\ thrown = ""
  /\ lastAuthOk = FALSE
  /\ pwSeen = <<>>
  /\ users = <<>>
  /\ received = <<>>

Init == InitState /\ probe = NoProbe

\* the calls an application makes in Spec: everything but the battery query
Next ==
  \/ connectToDevice
  \/ \E userConfig \in Configs : setConfig(userConfig)
  \/ Len(calls) < MaxCalls /\ pairAndAuthenticate
  \/ Len(calls) < MaxCalls /\ deleteAllUsers
  \/ Len(calls) < MaxCalls /\ systemExit
  \/ \E userId \in UserIds, d \in Dates, once \in BOOLEAN :
       Len(calls) < MaxCalls /\ createUser(userId, d, d, once)
  \/ \E c \in 1..Len(calls), ok \in BOOLEAN : WriteDone(c, ok)
  \/ \E c \in 1..Len(calls) : BackoffExpire(c)
  \/ \E c \in 1..Len(calls) : DelayExpire(c)
  \/ \E response \in NotifyFrames : handleNotifications(response)

Spec == Init /\ [][Next]_vars

\* an application that only queries the battery
NextBattery ==
  \/ connectToDevice
  \/ Len(calls) < MaxBatteryCalls /\ getBatteryLevel
  \/ \E c \in 1..Len(calls), ok \in BOOLEAN : WriteDone(c, ok)
  \/ \E c \in 1..Len(calls) : BackoffExpire(c)
  \/ \E c \in 1..Len(calls) : TimerFire(c)
  \/ \E response \in BatteryFrames : handleNotifications(response)

SpecBattery == Init /\ [][NextBattery]_vars

\* the same application, followed until its timers have fired
NextTimeout ==
  \/ connectToDevice
  \/ Len(calls) < MaxTimeoutCalls /\ getBatteryLevel
  \/ \E c \in 1..Len(calls), ok \in BOOLEAN : WriteDone(c, ok)
  \/ \E c \in 1..Len(calls) : BackoffExpire(c)
  \/ \E c \in 1..Len(calls) : TimerFire(c)
  \/ \E response \in BatteryFrames : handleNotifications(response)

\* an application that queries the battery while the lock sends anything
NextSuspended ==
  \/ connectToDevice
  \/ Len(calls) < MaxSuspended /\ getBatteryLevel
  \/ \E c \in 1..Len(calls), ok \in BOOLEAN : WriteDone(c, ok)
  \/ \E c \in 1..Len(calls) : BackoffExpire(c)
  \/ \E c \in 1..Len(calls) : TimerFire(c)
  \/ \E response \in SuspendedFrames : handleNotifications(response)

SpecSuspended == Init /\ [][NextSuspended]_vars

\* a 0x6C request was handed to the transport and has not failed
ListingRequested ==
  \E c \in 1..Len(calls) : calls[c].op = "getUsers" /\ calls[c].werr = ""

\* an application that lists the users and asks for the log; the lock sends
\* 0x6C fragments only once a listing was requested
NextListing ==
  \/ connectToDevice
  \/ Len(calls) < MaxListings /\ getUsers
  \/ Len(calls) < MaxListings /\ getLogs
  \/ \E c \in 1..Len(calls), ok \in BOOLEAN : WriteDone(c, ok)
  \/ \E response \in UserFrames :
       ListingRequested /\ handleNotifications(response)

SpecListing == Init /\ [][NextListing]_vars

\* an application that queries the battery while malformed frames arrive
NextMalformed ==
  \/ connectToDevice
  \/ Len(calls) < MaxSuspended /\ getBatteryLevel
  \/ \E c \in 1..Len(calls), ok \in BOOLEAN : WriteDone(c, ok)
  \/ \E c \in 1..Len(calls) : BackoffExpire(c)
  \/ \E c \in 1..Len(calls) : TimerFire(c)
  \/ \E response \in MalformedFrames : handleNotifications(response)

SpecMalformed == Init /\ [][NextMalformed]_vars

\* an application that configures, connects and runs the handshake
NextHandshake ==
  \/ connectToDevice
  \/ \E userConfig \in Configs : setConfig(userConfig)
  \/ Len(calls) < MaxCalls /\ pairAndAuthenticate
  \/ \E c \in 1..Len(calls), ok \in BOOLEAN : WriteDone(c, ok)
  \/ \E c \in 1..Len(calls) : BackoffExpire(c)
  \/ \E response \in HandshakeFrames : handleNotifications(response)

SpecHandshake == Init /\ [][NextHandshake]_vars
\* an application that sets the battery range and queries the battery
NextLevel ==
  \/ connectToDevice
  \/ \E userConfig \in BatteryConfigs : setConfig(userConfig)
  \/ Len(calls) < MaxLevelCalls /\ getBatteryLevel
  \/ \E c \in 1..Len(calls), ok \in BOOLEAN : WriteDone(c, ok)
  \/ \E c \in 1..Len(calls) : BackoffExpire(c)
  \/ \E c \in 1..Len(calls) : TimerFire(c)
  \/ \E response \in LevelFrames : handleNotifications(response)

SpecLevel == Init /\ [][NextLevel]_vars

(***************************************************************************)
(* The helper functions applied to arguments of their own                  *)
(***************************************************************************)
InitPacket ==
  /\ InitState
  /\ probe \in { [fn |-> "createPacket", cmd |-> cmd, data |-> data,
                   result |-> <<>>] : <<cmd, data>> \in PacketCmds \X PacketData }

\* createPacket(cmd, data) is called, lines 364-370
CallCreatePacket ==
  /\ probe.fn = "createPacket"
  /\ probe.result = <<>>
  /\ probe' = [probe EXCEPT !.result = createPacket(probe.cmd, probe.data)]
  /\ UNCHANGED <<CONFIG, transport, session, calls, out, thrown, history,
                 listing>>

SpecPacket == InitPacket /\ [][CallCreatePacket]_vars


(***************************************************************************)
(* Properties                                                              *)
(***************************************************************************)
\* the command bytes of the frames the last step wrote
Written == { out[k][2] : k \in 1..Len(out) }
WrittenNext == { out'[k][2] : k \in 1..Len(out') }

\* this step is the handler run on the frame with this command and status
Handled(cmd, status) ==
  handleNotifications(DeviceFrame(cmd, status, Payload(cmd)))

\* C1: a random-code request (0x20) is written only by the handler run on a
\* 0x0F notification with status 0x10, an authentication frame (0x21) only by
\* the handler run on a 0x20 notification with status 0x10, and a 0x0F or
\* 0x20 notification with another status writes nothing and changes nothing.
C1_HandshakeOrdering ==
  [][ /\ CMD_RANDOM \in WrittenNext => Handled(CMD_PAIR, ST_OK)
      /\ CMD_AUTH \in WrittenNext => Handled(CMD_RANDOM, ST_OK)
      /\ \/ out' = <<>> /\ UNCHANGED <<CONFIG, transport, session, calls>>
         \/ \A cmd \in {CMD_PAIR, CMD_RANDOM}, st \in Statuses \ {ST_OK} :
              ~Handled(cmd, st) ]_vars

\* C1 witness: the authentication frame has just been written
C1_Witness == CMD_AUTH \in Written /\ randomCode = 122

\* C2: isAuthenticated is false initially and at any time says whether the
\* last 0x21 notification since the last completed systemExit had status
\* 0x10; so a later failing 0x21 makes it false again, and the handler run
\* on another command does not change it.
C2_AuthenticatedFlag == isAuthenticated = lastAuthOk

\* C2 witness: authenticated by a 0x21 success notification
C2_Witness == isAuthenticated /\ lastAuthOk

\* a call that settles in this step
Settles(c, outcome) ==
  /\ c \in 1..Len(calls')
  /\ calls'[c].outcome = outcome
  /\ c \in 1..Len(calls) => calls[c].outcome = "pending"

\* C3 (as claimed): when pairAndAuthenticate completes successfully the
\* session is authenticated.
C3_PairReturnsAuthenticated ==
  [][ \A c \in 1..Len(calls') :
        calls'[c].op = "pairAndAuthenticate" /\ Settles(c, "resolved")
          => isAuthenticated' ]_vars

\* the precondition of the call appended by this step fails
PreconditionFails(cl) ==
  \/ /\ cl.op = "pairAndAuthenticate"
     /\ "PAIRING_PASSWORD" \notin CONFIG.keys \/ CONFIG.PAIRING_PASSWORD = <<>>
  \/ /\ cl.op \in {"createUser", "deleteAllUsers"}
     /\ ~isAuthenticated

\* C4: pairAndAuthenticate without a pairing password, and createUser or
\* deleteAllUsers while not authenticated, are rejected at once, write no
\* frame and change neither the session nor the pending-request tables.
C4_RejectedWithoutIO ==
  [][ Len(calls') = Len(calls) + 1 /\ PreconditionFails(calls'[Len(calls')]) =>
        /\ calls'[Len(calls')].outcome = "rejected"
        /\ calls'[Len(calls')].pc = "done"
        /\ out' = <<>>
        /\ UNCHANGED <<CONFIG, transport, session>> ]_vars

\* C4 witness: deleteAllUsers called before authentication was rejected
\* and wrote nothing
C4_Witness ==
  \E c \in 1..Len(calls) :
    /\ calls[c].op = "deleteAllUsers"
    /\ calls[c].value = Err("NotAuthenticated")
    /\ out = <<>>


\* the getBatteryLevel calls that are neither resolved nor rejected
Outstanding ==
  { c \in 1..Len(calls) :
      calls[c].op = "getBatteryLevel" /\ calls[c].outcome = "pending" }

\* C5 (as claimed): at most one battery request is outstanding at any time.
C5_BatterySingleFlight == Cardinality(Outstanding) <= 1

\* timers fire: the event loop runs every timer that stays armed
SpecBatteryFair ==
  /\ Init /\ [][NextTimeout]_vars
  /\ \A c \in 1..MaxTimeoutCalls :
       WF_vars(TimerFire(c)) /\ WF_vars(BackoffExpire(c))

\* this step is the handler run on a battery notification
BatteryHandled ==
  \E st \in Statuses : Handled(CMD_BATTERY, st)

\* C6: a battery request that no 0x60 success notification resolves is
\* rejected with the timeout error when its timer fires, which also empties
\* the pending slot; a request that is still unsettled has its timer armed,
\* and an armed timer does not stay armed forever, so the request is settled
\* in the end; a 0x60 notification that finds the slot empty resolves
\* nothing, throws nothing, writes nothing and changes no session state.
C6_BatteryTimeout ==
  /\ [](\A c \in Outstanding : calls[c].timer = "armed")
  /\ [][ \A c \in Outstanding :
           TimerFire(c) =>
             /\ calls'[c].outcome = "rejected"
             /\ calls'[c].value = Err("Timeout")
             /\ pendingBatteryResolve' = null ]_vars
  /\ [][ \/ pendingBatteryResolve # null
         \/ thrown' = "" /\ out' = <<>> /\ UNCHANGED <<session, calls>>
         \/ ~BatteryHandled ]_vars
  /\ \A c \in 1..MaxTimeoutCalls :
       (c \in Outstanding) ~> (c \notin Outstanding)

\* C6 witness: the write succeeded, no reply came, the timer fired, and the
\* slot is empty for a stray 0x60 notification to find
C6_Witness ==
  \E c \in 1..Len(calls) :
    /\ calls[c].op = "getBatteryLevel"
    /\ calls[c].pc = "done" /\ calls[c].werr = ""
    /\ calls[c].value = Err("Timeout")
    /\ calls[c].timer = "fired"
    /\ pendingBatteryResolve = null

\* the createUser calls, in call order
CreateCalls == SelectSeq(calls, LAMBDA cl : cl.op = "createUser")

\* C7 (as claimed): when the createUser calls were all made while
\* authenticated, for distinct user ids without a recorded password and
\* before any 0x68 notification, the k-th 0x68 success notification resolves
\* the k-th call with the password it carries.
C7_CreateUserInCallOrder ==
  ( /\ \A k \in 1..Len(CreateCalls) :
         /\ CreateCalls[k].auth
         /\ CreateCalls[k].seen = 0
         /\ \A e \in latestPasswords : e.userId # CreateCalls[k].userId
         /\ \A j \in 1..(k - 1) : CreateCalls[j].userId # CreateCalls[k].userId )
  => \A k \in 1..Len(CreateCalls) :
       k <= Len(pwSeen) =>
         /\ CreateCalls[k].outcome = "resolved"
         /\ CreateCalls[k].value = Password(pwSeen[k])

C10_WriteFailureLeavesNoTimer ==
  \A c \in 1..Len(calls) :
    calls[c].werr # "" => calls[c].timer # "armed"

\* C11 (as claimed): when a systemExit call completes, with either outcome,
\* the transport is disconnected and the session is reset: not authenticated
\* and no random code.
C11_SystemExitResets ==
  [][ \A c \in 1..Len(calls') :
        /\ calls'[c].op = "systemExit"
        /\ Settles(c, "resolved") \/ Settles(c, "rejected")
        => /\ ~gattConnected'
           /\ ~isAuthenticated'
           /\ randomCode' = undefined ]_vars

\* C12 (as claimed): a 0x60 notification with a status other than 0x10 that
\* finds a battery request pending completes that request with a failure.
C12_StatusSurfaced ==
  [][ \/ pendingBatteryResolve = null
      \/ calls[pendingBatteryResolve].outcome # "pending"
      \/ calls'[pendingBatteryResolve].outcome = "rejected"
      \/ \A st \in Statuses \ {ST_OK} : ~Handled(CMD_BATTERY, st) ]_vars

\* C13: the handler run on a notification for a command other than 0x60
\* leaves the pending battery request and every call as they are, whether a
\* caller is suspended or not, and makes its own update all the same: 0x21
\* sets the authenticated flag from its status, 0x20 with status 0x10 stores
\* the random code, a partial 0x6C fragment is appended to the buffer.
C13_HandlerIndependent ==
  /\ [][ \/ UNCHANGED <<pendingBatteryResolve, calls>>
         \/ /\ ~handleNotifications(HalfFrame)
            /\ \A cmd \in Commands \ {CMD_BATTERY}, st \in Statuses :
                 ~Handled(cmd, st) ]_vars
  /\ [][ \A st \in Statuses :
           Handled(CMD_AUTH, st) => isAuthenticated' = (st = ST_OK) ]_vars
  /\ [][ Handled(CMD_RANDOM, ST_OK) => randomCode' = 122 ]_vars
  /\ [][ handleNotifications(HalfFrame) =>
           userDataBuffer' = userDataBuffer \o Slice(RecB, 0, 12) ]_vars

\* C13 witness: a battery request made before authentication is still
\* pending after 0x20, 0x21 and 0x6C notifications were handled
C13_Witness ==
  \E c \in 1..Len(calls) :
    /\ calls[c].op = "getBatteryLevel"
    /\ calls[c].outcome = "pending"
    /\ pendingBatteryResolve = c
    /\ ~calls[c].auth
    /\ isAuthenticated
    /\ randomCode = 122
    /\ userDataBuffer = Slice(RecB, 0, 12)

\* the payload the handler takes from a frame, lines 135 and 141
PayloadOf(response) == Slice(response, 6, 6 + At(response, 3))

\* C14 (as claimed): once getUsers was called, the records listed on a final
\* 0x6C fragment are built from the fragments received since the last
\* getUsers call only.
C14_ListingFromOwnFragments ==
  [][ \A response \in UserFrames :
        /\ At(response, 2) = ST_OK
        /\ \E c \in 1..Len(calls) : calls[c].op = "getUsers"
        /\ handleNotifications(response)
        => users' = parseUserData(received \o PayloadOf(response)) ]_vars

\* C15: when the fragments received since the buffer was empty are partial
\* fragments followed by this final fragment, N bytes in all, the listing
\* has N div 24 records, record k being bytes 24(k-1)+1..24k in arrival
\* order (a shorter remainder is left out), and the buffer is empty after.
C15_FragmentReassembly ==
  [][ \A response \in UserFrames :
        /\ At(response, 2) = ST_OK
        /\ userDataBuffer = received
        /\ handleNotifications(response)
        => LET all == received \o PayloadOf(response)
               n   == Len(all) \div 24
           IN  /\ Len(users') = n
               /\ \A k \in 1..n :
                    users'[k].raw = SubSeq(all, 24 * (k - 1) + 1, 24 * k)
               /\ userDataBuffer' = <<>> ]_vars

\* C15 witness: a record in two partial halves, then a whole record in the
\* final fragment: two records are listed, the buffer is empty
C15_Witness ==
  /\ Len(users) = 2
  /\ users[1].raw = RecB
  /\ users[2].raw = RecA
  /\ users[1].valid
  /\ userDataBuffer = <<>>

\* C16 (as claimed): the handler run on a malformed, short or unknown frame
\* throws nothing, writes nothing, settles no call and leaves the session
\* and the pending tables as they are.
C16_MalformedDropped ==
  [][ \/ thrown' = "" /\ out' = <<>> /\ UNCHANGED <<session, calls>>
      \/ \A response \in MalformedFrames : ~handleNotifications(response) ]_vars

\* the calls that write through writeWithRetry and are in its loop
InLoop(cl) == ~Direct(cl) /\ cl.pc \in {"write", "backoff"}

\* the loop index of the attempt a step of this call makes or sees fail: a
\* step from the backoff takes the next pass of the loop
Pass(cl) == IF cl.pc = "backoff" THEN cl.i + 1 ELSE cl.i

\* C17, the attempts: the loop index of a write stays below 3, so a write is
\* attempted at most 3 times; a successful attempt ends the loop without an
\* error, and a call that left the loop never writes again; the write fails
\* only when its third attempt fails.
C17_Attempts ==
  /\ [](\A c \in 1..Len(calls) : InLoop(calls[c]) => calls[c].i < RETRIES)
  /\ [][ \A c \in 1..Len(calls) :
           /\ WriteDone(c, TRUE) =>
                ~InLoop(calls'[c]) /\ calls'[c].werr = ""
           /\ ~InLoop(calls[c]) => ~InLoop(calls'[c])
           /\ ~Direct(calls[c]) /\ calls[c].werr = "" /\ calls'[c].werr # ""
                => Pass(calls[c]) = RETRIES - 1 ]_vars

C18_EveryWriteRetried ==
  [][ \A k \in 1..Len(out') :
        \E c \in 1..Len(calls') :
          /\ InLoop(calls'[c])
          /\ calls'[c].pc = "write"
          /\ calls'[c].packet = out'[k] ]_vars

\* [0x01, the phone bytes of '15814015470', the ASCII bytes of '000000']
AdminPlain == <<1, 1, 88, 20, 1, 84, 112, 48, 48, 48, 48, 48, 48>>

\* AdminPlain XOR 0x7A, byte by byte
AdminCipher7A == <<123, 123, 34, 110, 123, 46, 10, 74, 74, 74, 74, 74, 74>>

\* C19: with the README's admin phone and password configured, the handler
\* run on a 0x20 notification with status 0x10 writes one 0x21 frame whose
\* payload is AdminPlain XOR the last byte of that notification, whatever
\* random code was stored before; XOR-ing the payload with that byte again
\* gives AdminPlain; for the byte 0x7A the payload is AdminCipher7A; and a
\* 0x21 frame is written by no other step.
C19_AuthPayload ==
  /\ [][ \A response \in HandshakeFrames :
           /\ At(response, 1) = CMD_RANDOM
           /\ At(response, 2) = ST_OK
           /\ "ADMIN_PASSWORD" \in CONFIG.keys
           /\ writeCharacteristic = "characteristic"
           /\ handleNotifications(response)
           => LET key  == response[Len(response)]
                  data == PayloadOf(out'[1])
              IN  /\ Len(out') = 1
                  /\ At(out'[1], 1) = CMD_AUTH
                  /\ Len(data) = Len(AdminPlain)
                  /\ \A k \in 1..Len(data) :
                       /\ data[k] = BitXor(AdminPlain[k], key)
                       /\ BitXor(data[k], key) = AdminPlain[k]
                  /\ key = 122 => data = AdminCipher7A ]_vars
  /\ [][ \/ CMD_AUTH \notin WrittenNext
         \/ \E response \in HandshakeFrames :
              (At(response, 1) = CMD_RANDOM /\ At(response, 2) = ST_OK
                 /\ handleNotifications(response)) ]_vars

\* C19 witness: a session authenticated in an earlier exchange received the
\* random code 0x39 and wrote the authentication frame for it
C19_Witness ==
  /\ isAuthenticated
  /\ randomCode = 57
  /\ out = <<createPacket(CMD_AUTH, encryptData(AdminPlain, 57))>>

\* C20: the frame createPacket builds is [0xF5, cmd, 0x00, len(data), 0x5F,
\* checksum, ...data] with checksum = (0xF5 + cmd + 0x00 + len(data) + 0x5F
\* + sum(data)) mod 256, and reading it as the handler reads a frame (cmd =
\* byte 1, status = byte 2, dataLength = byte 3, payload = bytes 6 to
\* 6 + dataLength) gives cmd, 0x00, len(data) and data back.
C20_FrameRoundTrip ==
  probe.fn = "createPacket" /\ probe.result # <<>> =>
    LET cmd  == probe.cmd
        data == probe.data
        response == probe.result
        checksum == (245 + cmd + 0 + Len(data) + 95 + SumSeq(data)) % 256
    IN  /\ response = <<245, cmd, 0, Len(data), 95, checksum>> \o data
        /\ At(response, 1) = cmd
        /\ At(response, 2) = 0
        /\ At(response, 3) = Len(data)
        /\ Slice(response, 6, 6 + At(response, 3)) = data

\* C20 witness: a frame with three data bytes of 0xFF was built; its byte
\* sum is far above 255
C20_Witness ==
  /\ probe.fn = "createPacket"
  /\ probe.cmd = CMD_LOG
  /\ probe.data = <<255, 255, 255>>
  /\ Len(probe.result) = 9

\* the configured minimum and maximum, with their defaults
MinOf(cfg) == IF cfg.BATTERY_MIN_MV = 0 THEN 3962 ELSE cfg.BATTERY_MIN_MV
MaxOf(cfg) == IF cfg.BATTERY_MAX_MV = 0 THEN 6000 ELSE cfg.BATTERY_MAX_MV

\* what C21 says of the percentage p reported for the voltage mv
PercentageAsClaimed(p, mv) ==
  /\ p \in 0..1000
  /\ mv <= MinOf(CONFIG) => p = 0
  /\ mv >= MaxOf(CONFIG) => p = 1000
  /\ \A lower \in Voltages :
       lower <= mv => calculateBatteryPercentage(lower, CONFIG) <= p

\* the percentage p the code reports for the voltage mv: as C21 says when
\* the minimum is below the maximum; falling from 100 at or below the
\* maximum to 0 at or above the minimum when the minimum is the greater;
\* and, when both are equal, 0 below them, 100 above them and no number
\* at them
PercentageByRange(p, mv) ==
  LET min == MinOf(CONFIG)
      max == MaxOf(CONFIG)
  IN  /\ min < max => PercentageAsClaimed(p, mv)
      /\ min > max =>
           /\ p \in 0..1000
           /\ mv >= min => p = 0
           /\ mv <= max => p = 1000
           /\ \A lower \in Voltages :
                lower <= mv => calculateBatteryPercentage(lower, CONFIG) >= p
      /\ min = max =>
           p = IF mv < min THEN 0 ELSE IF mv > min THEN 1000 ELSE NaN

\* a step in which a getBatteryLevel call is resolved is the handler run on
\* a 0x60 notification with status 0x10 while that call holds the pending
\* slot; its result has the voltage of frame bytes 8 and 9 and a percentage
\* that satisfies Percentage
ResolvedWith(Percentage(_, _)) ==
  \A c \in 1..Len(calls) :
    calls[c].op = "getBatteryLevel" /\ Settles(c, "resolved") =>
      /\ pendingBatteryResolve = c
      /\ \E response \in LevelFrames :
           /\ At(response, 2) = ST_OK
           /\ handleNotifications(response)
           /\ calls'[c].value.voltage = 256 * response[9] + response[10]
      /\ Percentage(calls'[c].value.percentage, calls'[c].value.voltage)

\* C21 (as claimed): a battery request is resolved only by a 0x60
\* notification with status 0x10 while it is pending; the voltage is the
\* big-endian value of bytes 8 and 9; the percentage is in 0..100, 0 at or
\* below the configured minimum, 100 at or above the configured maximum,
\* and non-decreasing in the voltage.
C21_BatteryLevel == [][ResolvedWith(PercentageAsClaimed)]_vars

\* C21 (amended): the same for a configured minimum below the configured
\* maximum; with the minimum above the maximum the percentage falls from
\* 100 at or below the maximum to 0 at or above the minimum, and with both
\* equal it is 0 below them, 100 above them and NaN at them.
C21_BatteryLevelByRange == [][ResolvedWith(PercentageByRange)]_vars

\* C21 witness: with the range 4000..5000 mV configured, a request was
\* resolved with 4500 mV and 50.0 percent
C21_Witness ==
  \E c \in 1..Len(calls) :
    /\ calls[c].outcome = "resolved"
    /\ calls[c].value.voltage = 4500
    /\ calls[c].value.percentage = 500
    /\ CONFIG = CfgRange

\* C22: every createUser call made while authenticated, after which the
\* lock has sent a 0x68 notification with status 0x10, is resolved with a
\* password.
C22_CreateUserResolved ==
  \A c \in 1..Len(calls) :
    calls[c].op = "createUser" /\ calls[c].auth /\ Len(pwSeen) > calls[c].seen
      => calls[c].outcome = "resolved" /\ calls[c].value.kind = "password"

\* C23: the expiry of the timer of a getBatteryLevel call that has already
\* settled leaves the pending slot as it is.
C23_TimerOwnRequest ==
  [][\A c \in 1..Len(calls) :
       calls[c].outcome # "pending" /\ TimerFire(c)
         => UNCHANGED pendingBatteryResolve]_vars

\* C24: the handler run on a 0x6B or 0x72 notification, whatever its status,
\* writes no frame and leaves the authenticated flag, the random code, the
\* fragment buffer, the pending battery slot, the pending user-creation
\* table and every call as they are; a deleteAllUsers call that passed the
\* authentication test is resolved by the success of its write and rejected
\* by the failure of its write (reported by the transport, or thrown when
\* an attempt after a backoff finds no characteristic), and by nothing else.
C24_InformationalOnly ==
  [][ /\ \/ out' = <<>> /\ UNCHANGED <<session, calls>>
         \/ \A cmd \in {CMD_DELETE, CMD_LOG}, st \in Statuses : ~Handled(cmd, st)
      /\ \A c \in 1..Len(calls) :
           calls[c].op = "deleteAllUsers" =>
             /\ Settles(c, "resolved") => WriteDone(c, TRUE)
             /\ Settles(c, "rejected") => WriteDone(c, FALSE) \/ BackoffExpire(c) ]_vars

\* C24 witness: a deleteAllUsers call made while authenticated is resolved,
\* and the session still has its authentication and its random code
C24_Witness ==
  \E c \in 1..Len(calls) :
    /\ calls[c].op = "deleteAllUsers"
    /\ calls[c].auth
    /\ calls[c].outcome = "resolved"
    /\ isAuthenticated
    /\ randomCode = 122

\* encryptData applied to every data sequence under every key of CipherKeys,
\* and applied again, with the same key, to what it returned
InitCipher ==
  /\ InitState
  /\ probe \in { [fn |-> "encryptData", cmd |-> key, data |-> plainData,
                   result |-> <<>>] : <<key, plainData>> \in CipherKeys \X PacketData }

CallEncryptData ==
  /\ probe.fn = "encryptData"
  /\ probe.result = <<>>
  /\ LET once == encryptData(probe.data, probe.cmd)
     IN  probe' = [probe EXCEPT !.result = <<once, encryptData(once, probe.cmd)>>]
  /\ UNCHANGED <<CONFIG, transport, session, calls, out, thrown, history, listing>>

SpecCipher == InitCipher /\ [][CallEncryptData]_vars

\* bit i of the byte b
BitOf(b, i) == (b \div (2 ^ i)) % 2

\* the bitwise exclusive or of two bytes, bit by bit
XorOfBytes(a, b) ==
  LET d(i) == (2 ^ i) * ((BitOf(a, i) + BitOf(b, i)) % 2)
  IN  d(0) + d(1) + d(2) + d(3) + d(4) + d(5) + d(6) + d(7)

\* C25: for a byte sequence and a key in 0..255, encryptData returns as many
\* bytes as it was given, each in 0..255 and equal to the input byte XOR the
\* key, and encryptData of that result with the same key is the input.
C25_CipherInvolution ==
  probe.fn = "encryptData" /\ probe.result # <<>> =>
    LET key    == probe.cmd
        plain  == probe.data
        cipher == probe.result[1]
    IN  /\ Len(cipher) = Len(plain)
        /\ \A k \in 1..Len(plain) :
             /\ cipher[k] \in 0..255
             /\ cipher[k] = XorOfBytes(plain[k], key)
        /\ probe.result[2] = plain

\* C25 witness: 00 01 7F under the key 0x7A gave 7A 7B 05, and that gave
\* 00 01 7F again
C25_Witness ==
  /\ probe.fn = "encryptData"
  /\ probe.cmd = 122
  /\ probe.data = <<0, 1, 127>>
  /\ probe.result = << <<122, 123, 5>>, <<0, 1, 127>> >>

\* decToBcd applied to every number of 0..99 and bcdToDec to what it
\* returned; dateToBcd applied to every date of BcdDates
InitBcd ==
  /\ InitState
  /\ probe \in { [fn |-> "decToBcd", cmd |-> dec, data |-> <<>>,
                   result |-> <<>>] : dec \in 0..99 }
          \cup { [fn |-> "dateToBcd", cmd |-> 0, data |-> date,
                   result |-> <<>>] : date \in BcdDates }

CallDecToBcd ==
  /\ probe.fn = "decToBcd"
  /\ probe.result = <<>>
  /\ LET byte == decToBcd(probe.cmd)
     IN  probe' = [probe EXCEPT !.result = <<byte, bcdToDec(byte)>>]
  /\ UNCHANGED <<CONFIG, transport, session, calls, out, thrown, history, listing>>

CallDateToBcd ==
  /\ probe.fn = "dateToBcd"
  /\ probe.result = <<>>
  /\ LET date == [year |-> probe.data[1], month |-> probe.data[2],
                  day |-> probe.data[3], hour |-> probe.data[4],
                  minute |-> probe.data[5]]
     IN  probe' = [probe EXCEPT !.result = dateToBcd(date)]
  /\ UNCHANGED <<CONFIG, transport, session, calls, out, thrown, history, listing>>

NextBcd == CallDecToBcd \/ CallDateToBcd

SpecBcd == InitBcd /\ [][NextBcd]_vars

\* the byte whose high nibble is the tens and whose low nibble is the units
TensAndUnits(n) == (n \div 10) * 16 + (n % 10)

\* C26: for n in 0..99, decToBcd(n) = (n div 10) * 16 + (n mod 10), so 0
\* gives 0x00, 9 gives 0x09, 23 gives 0x23 and 59 gives 0x59, and bcdToDec
\* of that byte is n; dateToBcd gives five such bytes: the year mod 100,
\* the month counted from 1, the day, the hour and the minute.
C26_BcdRoundTrip ==
  /\ probe.fn = "decToBcd" /\ probe.result # <<>> =>
       LET n == probe.cmd
       IN  /\ probe.result[1] = TensAndUnits(n)
           /\ n = 0  => probe.result[1] = 0
           /\ n = 9  => probe.result[1] = 9
           /\ n = 23 => probe.result[1] = 35
           /\ n = 59 => probe.result[1] = 89
           /\ probe.result[2] = n
  /\ probe.fn = "dateToBcd" /\ probe.result # <<>> =>
       LET date == probe.data
       IN  probe.result = << TensAndUnits(date[1] % 100), TensAndUnits(date[2] + 1),
                             TensAndUnits(date[3]), TensAndUnits(date[4]),
                             TensAndUnits(date[5]) >>

\* C26 witness: 59 was encoded as 0x59 and decoded as 59
C26_Witness ==
  /\ probe.fn = "decToBcd"
  /\ probe.cmd = 59
  /\ probe.result = <<89, 59>>

=============================================================================
